---- MODULE Spec2Model ----
(***************************************************************************)
(* gsession.StorageRedis: session persistence in a key-value backend with  *)
(* deferred, batched TTL renewal.                                          *)
(*                                                                         *)
(* A time.Duration is held as [sec, nsec]: its whole seconds and the        *)
(* nanoseconds beyond them, the two parts Duration.Seconds() works on.     *)
(* A Go pointer to a gmap.StrAnyMap is a sequence of length 0 (nil) or 1   *)
(* (the map it points to).  A stored payload is a sequence of JSON tokens. *)
(***************************************************************************)
EXTENDS Integers, Sequences, FiniteSets, TLC

VARIABLES
    prefix,         \* StorageRedis.prefix
    store,          \* the backend: key -> [val, ttl], defined on the keys that hold a record
    updatingIdMap,  \* StorageRedis.updatingIdMap: session id -> ttlSeconds
    timer,          \* the timer callback: [pc, sessionId, ttlSeconds]
    startMap,       \* history: updatingIdMap when the running (or last) invocation started
    issued,         \* history: id -> the ttlSeconds of the EXPIRE calls of that invocation for id
    failed,         \* history: some EXPIRE call of that invocation failed
    midTouch,       \* history: touches accepted while that invocation was running
    owed,           \* history: id -> ttlSeconds of the latest accepted touch no EXPIRE has carried yet
    latest,         \* history, kept when latest.on: id -> ttlSeconds of the latest accepted touch or save
    credit,         \* history, kept when credit.on: id -> [n, secs], the accepted touches of id
                    \* less the EXPIRE calls for id, and the ttlSeconds its touches supplied
    last            \* the most recent step: operation, arguments, results, backend calls

vars == <<prefix, store, updatingIdMap, timer, startMap, issued, failed, midTouch, owed, latest, credit, last>>

---------------------------------------------------------------------------
(* Bounds and input sets *)

\* touches accepted during one timer invocation (caps the drain loop)
MaxMidTouch == 1

\* accepted touches of one session that no EXPIRE call has answered yet
MaxCredit == 2

\* time.Second: the nanoseconds of one second
Second == 1000000000

\* the duration of sec seconds and nsec nanoseconds, 0 <= nsec < Second
Duration(sec, nsec) == [sec |-> sec, nsec |-> nsec]

Seconds(n) == Duration(n, 0)

\* d >= e on durations
AtLeast(d, e) == d.sec > e.sec \/ (d.sec = e.sec /\ d.nsec >= e.nsec)

DefaultStorageRedisLoopInterval == Seconds(10)

Ids == {"", "a", "b"}

\* the session ids of the specifications that run every operation
SyncIds == {"", "a"}

Prefixes == {"", "s:"}

\* ttl arguments of UpdateTTL
TouchTTLs ==
    {Seconds(5), Duration(9, Second - 1), Seconds(10), Duration(10, 900000000), Seconds(30)}

\* ttl arguments of half a year: a second short of 2^24 seconds, and 2^24
\* seconds, each with the last nanoseconds before the next second
LongTTLs ==
    {Duration(2 ^ 24 - 1, Second - 1), Duration(2 ^ 24, Second - 2), Duration(2 ^ 24, Second - 1)}

\* ttl arguments of SetSession and GetSession
SaveTTLs == {Duration(0, 500000000), Seconds(1), Duration(1, 500000000)}

---------------------------------------------------------------------------
(* Session values and their JSON encoding *)

\* a value held in a session map: its kind and its text; a number is held
\* by its decimal text
GoString(s) == [t |-> "string", v |-> s]

GoNumber(lit) == [t |-> "number", v |-> lit]

GoBool(lit) == [t |-> "bool", v |-> lit]

GoNil == [t |-> "nil", v |-> "null"]

MapKeyOrder == <<"a", "b">>

EmptyMap == [k \in {} |-> GoNil]

MapOf1(k, x) == [j \in {k} |-> x]

MapOf2(x, y) == [j \in {"a", "b"} |-> IF j = "a" THEN x ELSE y]

\* the session maps callers hold
SessionMaps ==
    { EmptyMap,
      MapOf1("a", GoString("x")),
      MapOf2(GoNumber("7"), GoBool("true")),
      MapOf1("b", GoNil) }

Quote(s) == "\"" \o s \o "\""

Strings == {"x", "a", "b"}

NumberLiterals == {"7"}

\* the token json.Marshal writes for a value
ValueToken(x) == IF x.t = "string" THEN Quote(x.v) ELSE x.v

RECURSIVE MarshalMembers(_, _, _)
MarshalMembers(m, i, first) ==
    IF i > Len(MapKeyOrder) THEN <<>>
    ELSE LET k == MapKeyOrder[i] IN
         IF k \in DOMAIN m
         THEN (IF first THEN <<>> ELSE <<",">>)
              \o <<Quote(k), ":", ValueToken(m[k])>>
              \o MarshalMembers(m, i + 1, FALSE)
         ELSE MarshalMembers(m, i + 1, first)

\* json.Marshal(data): [err, content], the map written as an object with its
\* keys sorted
Marshal(data) ==
    [err |-> "nil",
     content |-> <<"{">> \o MarshalMembers(data[1], 1, TRUE) \o <<"}">>]

\* the value a token decodes to; UseNumber keeps a number literal's decimal text
IsValueToken(tok) ==
    \/ tok \in {Quote(s) : s \in Strings}
    \/ tok \in NumberLiterals
    \/ tok \in {"true", "false", "null"}

TokenValue(tok) ==
    IF tok \in NumberLiterals THEN GoNumber(tok)
    ELSE IF tok \in {"true", "false"} THEN GoBool(tok)
    ELSE IF tok = "null" THEN GoNil
    ELSE GoString(CHOOSE s \in Strings : Quote(s) = tok)

IsKeyToken(tok) == tok \in {Quote(s) : s \in Strings}

TokenKey(tok) == CHOOSE s \in Strings : Quote(s) = tok

\* the members of an object, from token i on: [ok, members], members a
\* sequence of <<key, value>>; ok is FALSE when the tokens are no member list
RECURSIVE ParseMembers(_, _)
ParseMembers(toks, i) ==
    IF i + 2 > Len(toks) THEN [ok |-> FALSE, members |-> <<>>]
    ELSE IF ~(IsKeyToken(toks[i]) /\ toks[i + 1] = ":" /\ IsValueToken(toks[i + 2]))
    THEN [ok |-> FALSE, members |-> <<>>]
    ELSE LET member == <<TokenKey(toks[i]), TokenValue(toks[i + 2])>> IN
         IF i + 2 = Len(toks) THEN [ok |-> TRUE, members |-> <<member>>]
         ELSE IF toks[i + 3] # "," THEN [ok |-> FALSE, members |-> <<>>]
         ELSE LET rest == ParseMembers(toks, i + 4) IN
              [ok |-> rest.ok, members |-> <<member>> \o rest.members]

\* the map of a member list; a repeated key keeps its last value
MembersMap(members) ==
    [k \in {members[i][1] : i \in DOMAIN members} |->
        LET i == CHOOSE j \in DOMAIN members :
                    /\ members[j][1] = k
                    /\ \A h \in DOMAIN members : members[h][1] = k => h <= j
        IN members[i][2]]

\* json.UnmarshalUseNumber(content, &m) with m a nil map[string]interface{}:
\* [err, m]; null leaves m nil, an object fills it, anything else is an error
UnmarshalUseNumber(content) ==
    IF content = <<"null">> THEN [err |-> "nil", m |-> <<>>]
    ELSE IF Len(content) < 2 \/ content[1] # "{" \/ content[Len(content)] # "}"
    THEN [err |-> "json: cannot unmarshal", m |-> <<>>]
    ELSE IF Len(content) = 2 THEN [err |-> "nil", m |-> <<EmptyMap>>]
    ELSE LET parsed == ParseMembers(SubSeq(content, 2, Len(content) - 1), 1) IN
         IF ~parsed.ok
         THEN [err |-> "json: cannot unmarshal", m |-> <<>>]
         ELSE [err |-> "nil", m |-> <<MembersMap(parsed.members)>>]

---------------------------------------------------------------------------
(* The backend: GET, SETEX, EXPIRE, DEL on the key-value store *)

AllKeys == {p \o id : p \in Prefixes, id \in Ids}

\* payloads a foreign client of the store may leave under a key
ForeignPayloads == { <<>>, <<"{">>, <<"null">> }

NoEntries == [id \in {} |-> 0]

NoIssued == [id \in {} |-> <<>>]

NoRecords == [k \in {} |-> [val |-> <<>>, ttl |-> 0]]

\* a backend call as the client issued it, and whether it reached the store
Call(cmd, key, secs, val, ok) ==
    [cmd |-> cmd, key |-> key, secs |-> secs, val |-> val, ok |-> ok]

\* GET key: the stored bytes, none when the key holds no record
RedisGet(key) == IF key \in DOMAIN store THEN store[key].val ELSE <<>>

\* SETEX key secs val: refused for a non-positive expiry
SetexAccepted(secs) == secs >= 1

RedisSetex(key, secs, val) ==
    [k \in DOMAIN store \cup {key} |->
        IF k = key THEN [val |-> val, ttl |-> secs] ELSE store[k]]

\* EXPIRE key secs: sets the expiry of an existing record and leaves its value;
\* nothing happens on a key that holds no record
RedisExpire(key, secs) ==
    IF key \notin DOMAIN store THEN store
    ELSE IF secs <= 0 THEN [k \in DOMAIN store \ {key} |-> store[k]]
    ELSE [store EXCEPT ![key].ttl = secs]

\* DEL key
RedisDel(key) == [k \in DOMAIN store \ {key} |-> store[k]]

\* the error the client returns for a call: none when the store carried it out
RedisError(call) ==
    IF ~call.ok THEN "redis: i/o"
    ELSE IF call.cmd = "SETEX" /\ ~SetexAccepted(call.secs) THEN "redis: invalid expire time"
    ELSE "nil"

---------------------------------------------------------------------------
(* updatingIdMap: gmap.StrIntMap *)

\* Set(key, value): insert or overwrite
MapSet(m, id, secs) == [j \in DOMAIN m \cup {id} |-> IF j = id THEN secs ELSE m[j]]

\* what is left after Pop() took the entry of id
MapWithout(m, id) == [j \in DOMAIN m \ {id} |-> m[j]]

---------------------------------------------------------------------------
(* StorageRedis *)

\* the key without the session id
sessionIdToRedisKeyPrefixOnly(sessionId) == prefix

sessionIdToRedisKey(sessionId) == prefix \o sessionId

\* the exponent of n as a float64: the e with 2^e <= n < 2^(e+1)
RECURSIVE Exponent(_)
Exponent(n) == IF n < 2 THEN 0 ELSE 1 + Exponent(n \div 2)

\* half the gap between neighbouring float64 values at sec seconds, in whole
\* nanoseconds; nothing below 2^23 seconds, where the gap is under a nanosecond
HalfUlpNanos(sec) ==
    IF sec < 2 ^ 23 THEN 0 ELSE Second \div 2 ^ (53 - Exponent(sec))

\* int(ttl.Seconds()), int64(ttl.Seconds()), for ttl >= 0: Seconds() is the
\* float64 sum float64(sec) + float64(nsec)/1e9, rounded to the nearest
\* float64, and the conversion to an integer drops its fraction
ttlSeconds(ttl) ==
    IF Second - ttl.nsec <= HalfUlpNanos(ttl.sec) THEN ttl.sec + 1 ELSE ttl.sec

\* the test against one second instead of the loop interval
TtlQueuedFromOneSecond(ttl) == AtLeast(ttl, Seconds(1))

\* UpdateTTL's test of the ttl against the loop interval
TtlQueued(ttl) == AtLeast(ttl, DefaultStorageRedisLoopInterval)

\* the drain loop's test that Pop() found the map empty
PopFoundNothing(sessionId) == sessionId = ""

\* the test that also takes the two bytes of an empty object for no content
NoContentUpToBraces(content) == Len(content) <= 2

\* the test left out
NoContentNever(content) == FALSE

\* GetSession's test that the backend returned no content
NoContent(content) == Len(content) = 0

\* the record of a step; after names the step before a GetSession or RemoveAll
\* when that was a successful SetSession or RemoveAll of the same session id
Step(op, id, ttl, data, ret, same, dataAfter, err, calls) ==
    [op |-> op, id |-> id, ttl |-> ttl, data |-> data, ret |-> ret, same |-> same,
     dataAfter |-> dataAfter, err |-> err, calls |-> calls,
     after |-> IF /\ op \in {"GetSession", "RemoveAll"}
                  /\ last.op \in {"SetSession", "RemoveAll"}
                  /\ last.id = id
                  /\ last.err = "nil"
               THEN last.op ELSE ""]

\* a caller's step leaves the history of a running invocation alone
\* and forgets the history of a finished one
CallerHistory(accepted) ==
    IF timer.pc = "idle"
    THEN /\ startMap' = NoEntries
         /\ issued' = NoIssued
         /\ failed' = FALSE
         /\ midTouch' = 0
    ELSE /\ UNCHANGED <<startMap, issued, failed>>
         /\ midTouch' = midTouch + (IF accepted THEN 1 ELSE 0)

\* the history of the latest request that carried a ttl for a session: an
\* accepted touch or a save the store took
LatestAfter(sessionId, secs, happened) ==
    IF latest.on /\ happened
    THEN [latest EXCEPT !.of = MapSet(latest.of, sessionId, secs)]
    ELSE latest

NoCredit == [id \in {} |-> [n |-> 0, secs |-> {}]]

CreditOf(sessionId) ==
    IF sessionId \in DOMAIN credit.of THEN credit.of[sessionId] ELSE [n |-> 0, secs |-> {}]

\* the history of touches and EXPIRE calls: by more accepted touches of the
\* session (or -1 for an EXPIRE call), which supplied the ttlSeconds in secs
CreditAfter(sessionId, by, secs) ==
    IF ~credit.on THEN credit
    ELSE [credit EXCEPT !.of =
            [id \in DOMAIN credit.of \cup {sessionId} |->
                IF id = sessionId
                THEN [n |-> CreditOf(id).n + by, secs |-> CreditOf(id).secs \cup secs]
                ELSE credit.of[id]]]

\* GetSession reporting a payload it cannot decode as no session
GetSessionResultDecodeErrorDropped(sessionId, data, ok) ==
    IF ~ok
    THEN [ret |-> <<>>, same |-> FALSE, dataAfter |-> data, err |-> "redis: i/o"]
    ELSE LET content == RedisGet(sessionIdToRedisKey(sessionId)) IN
         IF NoContent(content)
         THEN [ret |-> <<>>, same |-> FALSE, dataAfter |-> data, err |-> "nil"]
         ELSE LET u == UnmarshalUseNumber(content) IN
              IF u.err # "nil" \/ u.m = <<>>
              THEN [ret |-> <<>>, same |-> FALSE, dataAfter |-> data, err |-> "nil"]
              ELSE IF data = <<>>
              THEN [ret |-> u.m, same |-> FALSE, dataAfter |-> data, err |-> "nil"]
              ELSE [ret |-> u.m, same |-> TRUE, dataAfter |-> u.m, err |-> "nil"]

\* GetSession adding the stored keys to the caller's map and keeping its other keys
GetSessionResultMerges(sessionId, data, ok) ==
    IF ~ok
    THEN [ret |-> <<>>, same |-> FALSE, dataAfter |-> data, err |-> "redis: i/o"]
    ELSE LET content == RedisGet(sessionIdToRedisKey(sessionId)) IN
         IF NoContent(content)
         THEN [ret |-> <<>>, same |-> FALSE, dataAfter |-> data, err |-> "nil"]
         ELSE LET u == UnmarshalUseNumber(content) IN
              IF u.err # "nil"
              THEN [ret |-> <<>>, same |-> FALSE, dataAfter |-> data, err |-> u.err]
              ELSE IF u.m = <<>>
              THEN [ret |-> <<>>, same |-> FALSE, dataAfter |-> data, err |-> "nil"]
              ELSE IF data = <<>>
              THEN [ret |-> u.m, same |-> FALSE, dataAfter |-> data, err |-> "nil"]
              ELSE LET merged == [k \in DOMAIN data[1] \cup DOMAIN u.m[1] |->
                                    IF k \in DOMAIN u.m[1] THEN u.m[1][k] ELSE data[1][k]]
                   IN [ret |-> <<merged>>, same |-> TRUE, dataAfter |-> <<merged>>, err |-> "nil"]

\* what GetSession returns: [ret, same, dataAfter, err]; same says the returned
\* pointer is the caller's data
GetSessionResult(sessionId, data, ok) ==
    IF ~ok
    THEN [ret |-> <<>>, same |-> FALSE, dataAfter |-> data, err |-> "redis: i/o"]
    ELSE LET content == RedisGet(sessionIdToRedisKey(sessionId)) IN
         IF NoContent(content)
         THEN [ret |-> <<>>, same |-> FALSE, dataAfter |-> data, err |-> "nil"]
         ELSE LET u == UnmarshalUseNumber(content) IN
              IF u.err # "nil"
              THEN [ret |-> <<>>, same |-> FALSE, dataAfter |-> data, err |-> u.err]
              ELSE IF u.m = <<>>
              THEN [ret |-> <<>>, same |-> FALSE, dataAfter |-> data, err |-> "nil"]
              ELSE IF data = <<>>
              THEN [ret |-> u.m, same |-> FALSE, dataAfter |-> data, err |-> "nil"]
              ELSE [ret |-> u.m, same |-> TRUE, dataAfter |-> u.m, err |-> "nil"]

GetSession(sessionId, ttl, data) ==
    \E ok \in BOOLEAN :
        LET r == GetSessionResult(sessionId, data, ok) IN
        /\ last' = Step("GetSession", sessionId, ttl, data, r.ret, r.same, r.dataAfter,
                        r.err, <<Call("GET", sessionIdToRedisKey(sessionId), 0, <<>>, ok)>>)
        /\ CallerHistory(FALSE)
        /\ UNCHANGED <<prefix, latest, credit, store, updatingIdMap, timer, owed>>

\* SetSession also dropping the touch queued for the session it saves
SetSessionClearsPending(sessionId, data, ttl) ==
    \E reachable \in BOOLEAN :
        LET key  == sessionIdToRedisKey(sessionId)
            secs == ttlSeconds(ttl)
            ok   == reachable /\ SetexAccepted(secs)
            enc  == Marshal(data)
        IN
        /\ store' = IF ok THEN RedisSetex(key, secs, enc.content) ELSE store
        /\ updatingIdMap' = MapWithout(updatingIdMap, sessionId)
        /\ last' = Step("SetSession", sessionId, ttl, data, <<>>, FALSE, data,
                        IF ok THEN "nil"
                        ELSE IF reachable THEN "redis: invalid expire time"
                        ELSE "redis: i/o",
                        <<Call("SETEX", key, secs, enc.content, reachable)>>)
        /\ CallerHistory(FALSE)
        /\ UNCHANGED <<prefix, latest, credit, timer, owed>>

SetSession(sessionId, data, ttl) ==
    LET enc == Marshal(data) IN
    IF enc.err # "nil"
    THEN /\ last' = Step("SetSession", sessionId, ttl, data, <<>>, FALSE, data, enc.err, <<>>)
         /\ CallerHistory(FALSE)
         /\ UNCHANGED <<prefix, latest, credit, store, updatingIdMap, timer, owed>>
    ELSE \E reachable \in BOOLEAN :
            LET key  == sessionIdToRedisKey(sessionId)
                secs == ttlSeconds(ttl)
                ok   == reachable /\ SetexAccepted(secs)
            IN
            /\ store' = IF ok THEN RedisSetex(key, secs, enc.content) ELSE store
            /\ last' = Step("SetSession", sessionId, ttl, data, <<>>, FALSE, data,
                            IF ok THEN "nil"
                            ELSE IF reachable THEN "redis: invalid expire time"
                            ELSE "redis: i/o",
                            <<Call("SETEX", key, secs, enc.content, reachable)>>)
            /\ latest' = LatestAfter(sessionId, secs, ok)
            /\ CallerHistory(FALSE)
            /\ UNCHANGED <<prefix, credit, updatingIdMap, timer, owed>>

\* the error every disabled operation returns
ErrorDisabled == "ErrorDisabled"

\* the step of an operation this storage does not support: it returns its zero
\* values and ErrorDisabled, and does nothing else
Disabled(op, sessionId, ttl, data, ret) ==
    /\ last' = Step(op, sessionId, ttl, data, ret, FALSE, data, ErrorDisabled, <<>>)
    /\ CallerHistory(FALSE)
    /\ UNCHANGED <<prefix, latest, credit, store, updatingIdMap, timer, owed>>

New(ttl) == Disabled("New", "", ttl, <<>>, <<GoString("")>>)

Get(sessionId, key) == Disabled("Get", sessionId, Seconds(0), <<>>, <<>>)

Data(sessionId) == Disabled("Data", sessionId, Seconds(0), <<>>, <<>>)

GetSize(sessionId) == Disabled("GetSize", sessionId, Seconds(0), <<>>, <<GoNumber("-1")>>)

Set(sessionId, key, value, ttl) == Disabled("Set", sessionId, ttl, <<>>, <<>>)

\* SetMap saving the map as SetSession does
SetMapSaves(sessionId, data, ttl) ==
    /\ store' = RedisSetex(sessionIdToRedisKey(sessionId), ttlSeconds(ttl), Marshal(data).content)
    /\ last' = Step("SetMap", sessionId, ttl, data, <<>>, FALSE, data, "nil",
                    <<Call("SETEX", sessionIdToRedisKey(sessionId), ttlSeconds(ttl),
                           Marshal(data).content, TRUE)>>)
    /\ CallerHistory(FALSE)
    /\ UNCHANGED <<prefix, latest, credit, updatingIdMap, timer, owed>>

SetMap(sessionId, data, ttl) == Disabled("SetMap", sessionId, ttl, data, <<>>)

Remove(sessionId, key) == Disabled("Remove", sessionId, Seconds(0), <<>>, <<>>)

\* RemoveAll taking DEL's reply of zero deleted keys for a failure
RemoveAllAbsentIsError(sessionId) ==
    \E ok \in BOOLEAN :
        LET key == sessionIdToRedisKey(sessionId) IN
        /\ store' = IF ok THEN RedisDel(key) ELSE store
        /\ last' = Step("RemoveAll", sessionId, Seconds(0), <<>>, <<>>, FALSE, <<>>,
                        IF ok /\ key \in DOMAIN store THEN "nil"
                        ELSE IF ok THEN "redis: nil" ELSE "redis: i/o",
                        <<Call("DEL", key, 0, <<>>, ok)>>)
        /\ CallerHistory(FALSE)
        /\ UNCHANGED <<prefix, latest, credit, updatingIdMap, timer, owed>>

\* RemoveAll issuing DEL a second time when the first one failed
RemoveAllRetries(sessionId) ==
    \E ok \in BOOLEAN :
        LET key == sessionIdToRedisKey(sessionId) IN
        /\ store' = RedisDel(key)
        /\ last' = Step("RemoveAll", sessionId, Seconds(0), <<>>, <<>>, FALSE, <<>>, "nil",
                        IF ok THEN <<Call("DEL", key, 0, <<>>, TRUE)>>
                        ELSE <<Call("DEL", key, 0, <<>>, FALSE), Call("DEL", key, 0, <<>>, TRUE)>>)
        /\ CallerHistory(FALSE)
        /\ UNCHANGED <<prefix, latest, credit, updatingIdMap, timer, owed>>

RemoveAll(sessionId) ==
    \E ok \in BOOLEAN :
        LET key == sessionIdToRedisKey(sessionId) IN
        /\ store' = IF ok THEN RedisDel(key) ELSE store
        /\ last' = Step("RemoveAll", sessionId, Seconds(0), <<>>, <<>>, FALSE, <<>>,
                        IF ok THEN "nil" ELSE "redis: i/o",
                        <<Call("DEL", key, 0, <<>>, ok)>>)
        /\ CallerHistory(FALSE)
        /\ UNCHANGED <<prefix, latest, credit, updatingIdMap, timer, owed>>

UpdateTTL(sessionId, ttl) ==
    LET queued == TtlQueued(ttl) IN
    /\ queued /\ timer.pc # "idle" => midTouch < MaxMidTouch
    /\ queued /\ credit.on => CreditOf(sessionId).n < MaxCredit
    /\ updatingIdMap' = IF queued
                        THEN MapSet(updatingIdMap, sessionId, ttlSeconds(ttl))
                        ELSE updatingIdMap
    /\ owed' = IF queued THEN MapSet(owed, sessionId, ttlSeconds(ttl)) ELSE owed
    /\ last' = Step("UpdateTTL", sessionId, ttl, <<>>, <<>>, FALSE, <<>>, "nil", <<>>)
    /\ latest' = LatestAfter(sessionId, ttlSeconds(ttl), queued)
    /\ credit' = IF queued THEN CreditAfter(sessionId, 1, {ttlSeconds(ttl)}) ELSE credit
    /\ CallerHistory(queued)
    /\ UNCHANGED <<prefix, store, timer>>

---------------------------------------------------------------------------
(* The timer callback of NewStorageRedis: one invocation at a time *)

TimerIdle == [pc |-> "idle", sessionId |-> "", ttlSeconds |-> 0]

\* the timer fires: the callback starts
TimerStart ==
    /\ timer.pc = "idle"
    /\ timer' = [timer EXCEPT !.pc = "pop"]
    /\ startMap' = updatingIdMap
    /\ issued' = NoIssued
    /\ failed' = FALSE
    /\ midTouch' = 0
    /\ last' = Step("timer.start", "", Seconds(0), <<>>, <<>>, FALSE, <<>>, "nil", <<>>)
    /\ UNCHANGED <<prefix, latest, credit, store, updatingIdMap, owed>>

\* Pop(): some entry of the map, removed from it, or ("", 0) when the map is empty
PopResults ==
    IF DOMAIN updatingIdMap = {}
    THEN {[sessionId |-> "", ttlSeconds |-> 0, rest |-> updatingIdMap]}
    ELSE {[sessionId |-> id, ttlSeconds |-> updatingIdMap[id],
           rest |-> MapWithout(updatingIdMap, id)] : id \in DOMAIN updatingIdMap}

\* one turn of the loop up to the test of the popped id: break, or go on to doUpdateTTL
TimerPop ==
    /\ timer.pc = "pop"
    /\ \E p \in PopResults :
        /\ updatingIdMap' = p.rest
        /\ IF PopFoundNothing(p.sessionId)
           THEN /\ timer' = TimerIdle
                /\ last' = Step("timer.end", p.sessionId, Seconds(0), <<>>, <<>>, FALSE, <<>>, "nil", <<>>)
           ELSE /\ timer' = [pc |-> "update", sessionId |-> p.sessionId,
                             ttlSeconds |-> p.ttlSeconds]
                /\ last' = Step("timer.pop", p.sessionId, Seconds(0), <<>>, <<>>, FALSE, <<>>, "nil", <<>>)
    /\ UNCHANGED <<prefix, latest, credit, store, startMap, issued, failed, midTouch, owed>>

\* doUpdateTTL renewing by SETEX of an empty value instead of EXPIRE
doUpdateTTLBySetex ==
    /\ timer.pc = "update"
    /\ \E ok \in BOOLEAN :
        LET key == sessionIdToRedisKey(timer.sessionId) IN
        /\ store' = IF ok THEN RedisSetex(key, timer.ttlSeconds, <<>>) ELSE store
        /\ issued' = [id \in DOMAIN issued \cup {timer.sessionId} |->
                        IF id = timer.sessionId
                        THEN (IF id \in DOMAIN issued THEN issued[id] ELSE <<>>)
                             \o <<timer.ttlSeconds>>
                        ELSE issued[id]]
        /\ failed' = (failed \/ ~ok)
        /\ owed' = IF timer.sessionId \in DOMAIN owed
                      /\ owed[timer.sessionId] = timer.ttlSeconds
                   THEN MapWithout(owed, timer.sessionId)
                   ELSE owed
        /\ last' = Step("timer.doUpdateTTL", timer.sessionId, Seconds(0), <<>>, <<>>, FALSE, <<>>,
                        IF ok THEN "nil" ELSE "redis: i/o",
                        <<Call("SETEX", key, timer.ttlSeconds, <<>>, ok)>>)
    /\ timer' = [timer EXCEPT !.pc = "pop"]
    /\ UNCHANGED <<prefix, latest, credit, updatingIdMap, startMap, midTouch>>

\* doUpdateTTL(sessionId, ttlSeconds) and the logging of its error
doUpdateTTL ==
    /\ timer.pc = "update"
    /\ \E ok \in BOOLEAN :
        LET key == sessionIdToRedisKey(timer.sessionId) IN
        /\ store' = IF ok THEN RedisExpire(key, timer.ttlSeconds) ELSE store
        /\ issued' = [id \in DOMAIN issued \cup {timer.sessionId} |->
                        IF id = timer.sessionId
                        THEN (IF id \in DOMAIN issued THEN issued[id] ELSE <<>>)
                             \o <<timer.ttlSeconds>>
                        ELSE issued[id]]
        /\ failed' = (failed \/ ~ok)
        /\ owed' = IF timer.sessionId \in DOMAIN owed
                      /\ owed[timer.sessionId] = timer.ttlSeconds
                   THEN MapWithout(owed, timer.sessionId)
                   ELSE owed
        /\ last' = Step("timer.doUpdateTTL", timer.sessionId, Seconds(0), <<>>, <<>>, FALSE, <<>>,
                        IF ok THEN "nil" ELSE "redis: i/o",
                        <<Call("EXPIRE", key, timer.ttlSeconds, <<>>, ok)>>)
    /\ timer' = [timer EXCEPT !.pc = "pop"]
    /\ credit' = CreditAfter(timer.sessionId, -1, {})
    /\ UNCHANGED <<prefix, latest, updatingIdMap, startMap, midTouch>>

---------------------------------------------------------------------------
(* The store's own steps *)

\* the expiry of a record runs out: the store discards it
BackendExpiry(key) ==
    /\ key \in DOMAIN store
    /\ store' = RedisDel(key)
    /\ last' = Step("backend.expiry", "", Seconds(0), <<>>, <<>>, FALSE, <<>>, "nil", <<>>)
    /\ CallerHistory(FALSE)
    /\ UNCHANGED <<prefix, latest, credit, updatingIdMap, timer, owed>>

\* another client of the store writes a payload of its own under a key
ForeignWrite(key, payload) ==
    /\ store' = RedisSetex(key, 1, payload)
    /\ last' = Step("backend.foreign", "", Seconds(0), <<>>, <<>>, FALSE, <<>>, "nil", <<>>)
    /\ CallerHistory(FALSE)
    /\ UNCHANGED <<prefix, latest, credit, updatingIdMap, timer, owed>>

---------------------------------------------------------------------------
(* Specifications *)

\* the storage as NewStorageRedis leaves it, the store holding no session
Fresh ==
    /\ store = NoRecords
    /\ updatingIdMap = NoEntries
    /\ timer = TimerIdle
    /\ startMap = NoEntries
    /\ issued = NoIssued
    /\ failed = FALSE
    /\ midTouch = 0
    /\ owed = NoEntries
    /\ last = [op |-> "NewStorageRedis", id |-> "", ttl |-> Seconds(0), data |-> <<>>, ret |-> <<>>,
               same |-> FALSE, dataAfter |-> <<>>, err |-> "nil", calls |-> <<>>,
               after |-> ""]

\* NewStorageRedis(redis, prefix...)
Init ==
    /\ prefix \in Prefixes
    /\ latest = [on |-> FALSE, of |-> NoEntries]
    /\ credit = [on |-> FALSE, of |-> NoCredit]
    /\ Fresh

\* NewStorageRedis(redis, "s:")
InitPrefixed ==
    /\ prefix = "s:"
    /\ latest = [on |-> FALSE, of |-> NoEntries]
    /\ credit = [on |-> FALSE, of |-> NoCredit]
    /\ Fresh

\* NewStorageRedis(redis, prefix...), the history of the latest requests kept
InitLatest ==
    /\ prefix \in Prefixes
    /\ latest = [on |-> TRUE, of |-> NoEntries]
    /\ credit = [on |-> FALSE, of |-> NoCredit]
    /\ Fresh

\* NewStorageRedis(redis, prefix...), the history of touches and EXPIRE calls kept
InitCredit ==
    /\ prefix \in Prefixes
    /\ latest = [on |-> FALSE, of |-> NoEntries]
    /\ credit = [on |-> TRUE, of |-> NoCredit]
    /\ Fresh

\* every operation of the storage, the timer callback and the expiry of records
Next ==
    \/ \E id \in SyncIds, ttl \in TouchTTLs : UpdateTTL(id, ttl)
    \/ TimerStart
    \/ TimerPop
    \/ doUpdateTTL
    \/ \E id \in SyncIds : SetSession(id, <<MapOf1("a", GoString("x"))>>, Seconds(30))
    \/ \E id \in SyncIds : GetSession(id, Seconds(30), <<>>)
    \/ \E id \in SyncIds : RemoveAll(id)
    \/ \E id \in SyncIds : BackendExpiry(sessionIdToRedisKey(id))

Spec == InitPrefixed /\ [][Next]_vars

\* the renewal path alone: touches of every id and the timer callback
NextFlush ==
    \/ \E id \in Ids, ttl \in TouchTTLs : UpdateTTL(id, ttl)
    \/ TimerStart
    \/ TimerPop
    \/ doUpdateTTL

SpecFlush == Init /\ [][NextFlush]_vars

\* the synchronous operations on every session map, beside other clients of the store
NextStore ==
    \/ \E id \in SyncIds, m \in SessionMaps, ttl \in SaveTTLs : SetSession(id, <<m>>, ttl)
    \/ \E id \in SyncIds, ttl \in SaveTTLs : GetSession(id, ttl, <<MapOf2(GoNumber("7"), GoBool("true"))>>)
    \/ \E id \in SyncIds, ttl \in SaveTTLs : GetSession(id, ttl, <<>>)
    \/ \E id \in SyncIds : RemoveAll(id)
    \/ \E id \in SyncIds : BackendExpiry(sessionIdToRedisKey(id))
    \/ \E id \in SyncIds, payload \in ForeignPayloads :
            ForeignWrite(sessionIdToRedisKey(id), payload)

SpecStore == Init /\ [][NextStore]_vars

\* the operations this storage does not support, beside saves, removals and touches
NextDisabled ==
    \/ \E ttl \in SaveTTLs : New(ttl)
    \/ \E id \in SyncIds : Get(id, "a")
    \/ \E id \in SyncIds : Data(id)
    \/ \E id \in SyncIds : GetSize(id)
    \/ \E id \in SyncIds, ttl \in SaveTTLs : Set(id, "a", GoString("x"), ttl)
    \/ \E id \in SyncIds, ttl \in SaveTTLs : SetMap(id, <<MapOf1("a", GoString("x"))>>, ttl)
    \/ \E id \in SyncIds : Remove(id, "a")
    \/ \E id \in SyncIds : SetSession(id, <<EmptyMap>>, Seconds(30))
    \/ \E id \in SyncIds : RemoveAll(id)
    \/ \E id \in SyncIds, ttl \in {Seconds(10), Seconds(30)} : UpdateTTL(id, ttl)

SpecDisabled == Init /\ [][NextDisabled]_vars

\* saves and touches of one session with short and long ttl, and the timer callback
NextTtl ==
    \/ \E ttl \in SaveTTLs \cup TouchTTLs \cup LongTTLs : SetSession("a", <<EmptyMap>>, ttl)
    \/ \E ttl \in TouchTTLs \cup LongTTLs : UpdateTTL("a", ttl)
    \/ TimerStart
    \/ TimerPop
    \/ doUpdateTTL

SpecTtl == Init /\ [][NextTtl]_vars

\* touches and the timer callback, the timer firing again and again and every
\* step of its callback returning
NextLive ==
    \/ \E id \in SyncIds, ttl \in {Seconds(5), Seconds(10), Seconds(30)} : UpdateTTL(id, ttl)
    \/ TimerStart
    \/ TimerPop
    \/ doUpdateTTL

SpecLive ==
    /\ Init
    /\ [][NextLive]_vars
    /\ WF_vars(TimerStart)
    /\ WF_vars(TimerPop)
    /\ WF_vars(doUpdateTTL)

\* touches and saves of the sessions a and b, and whole runs of the timer
\* callback: callers act between its invocations
NextExpiry ==
    \/ \E id \in {"a", "b"}, ttl \in {Seconds(10), Seconds(30)} :
            timer.pc = "idle" /\ UpdateTTL(id, ttl)
    \/ \E id \in {"a", "b"}, ttl \in {Seconds(10), Seconds(30)} :
            timer.pc = "idle" /\ SetSession(id, <<EmptyMap>>, ttl)
    \/ TimerStart
    \/ TimerPop
    \/ doUpdateTTL

SpecExpiry == InitLatest /\ [][NextExpiry]_vars

\* touches, counted, and the timer callback
NextCredit ==
    \/ \E id \in SyncIds, ttl \in TouchTTLs : UpdateTTL(id, ttl)
    \/ TimerStart
    \/ TimerPop
    \/ doUpdateTTL

SpecCredit == InitCredit /\ [][NextCredit]_vars

\* every operation on two sessions, with and without a prefix
NextKeys ==
    \/ \E id \in SyncIds, ttl \in {Seconds(10), Seconds(30)} : UpdateTTL(id, ttl)
    \/ TimerStart
    \/ TimerPop
    \/ doUpdateTTL
    \/ \E id \in SyncIds : SetSession(id, <<MapOf1("a", GoString("x"))>>, Seconds(30))
    \/ \E id \in SyncIds : GetSession(id, Seconds(30), <<>>)
    \/ \E id \in SyncIds : RemoveAll(id)

SpecKeys == Init /\ [][NextKeys]_vars

---------------------------------------------------------------------------
(* Claims *)

KeyOf(id) == prefix \o id

LoopSeconds == DefaultStorageRedisLoopInterval.sec

\* the backend call of the last step came back without error
LastCallOk == last.calls # <<>> /\ last.calls[1].ok

\* C1: UpdateTTL with a ttl below the loop interval returns nil, issues no backend
\* call and leaves updatingIdMap and the store as they were; every entry of
\* updatingIdMap holds at least the loop interval's seconds.
C1_SubIntervalTouchIsNoOp ==
    /\ [][ (last'.op = "UpdateTTL" /\ ~AtLeast(last'.ttl, DefaultStorageRedisLoopInterval))
            => /\ last'.err = "nil"
               /\ last'.calls = <<>>
               /\ updatingIdMap' = updatingIdMap
               /\ store' = store ]_vars
    /\ [](\A id \in DOMAIN updatingIdMap : updatingIdMap[id] >= LoopSeconds)

\* a touch below the interval was made while another id was queued
C1_Witness ==
    /\ last.op = "UpdateTTL"
    /\ last.ttl = Duration(LoopSeconds - 1, Second - 1)
    /\ last.id \notin DOMAIN updatingIdMap
    /\ DOMAIN updatingIdMap # {}

\* C2: UpdateTTL with a ttl of at least the loop interval (the interval itself
\* included) puts (id, whole seconds of ttl) into updatingIdMap, leaves every
\* other entry alone, returns nil and issues no backend call; EXPIRE is only
\* ever issued by the timer callback's doUpdateTTL.
C2_TouchIsQueuedWithoutBackendCall ==
    /\ [][ (last'.op = "UpdateTTL" /\ AtLeast(last'.ttl, DefaultStorageRedisLoopInterval))
            => /\ DOMAIN updatingIdMap' = DOMAIN updatingIdMap \cup {last'.id}
               /\ updatingIdMap'[last'.id] = last'.ttl.sec
               /\ \A id \in DOMAIN updatingIdMap \ {last'.id} :
                      updatingIdMap'[id] = updatingIdMap[id]
               /\ last'.err = "nil"
               /\ last'.calls = <<>>
               /\ store' = store ]_vars
    /\ [](\A i \in DOMAIN last.calls :
              last.calls[i].cmd = "EXPIRE" => last.op = "timer.doUpdateTTL")

\* an invocation of the timer callback has just ended and no touch came during it
QuietInvocationEnded == last.op = "timer.end" /\ midTouch = 0

\* every entry queued when the invocation started got exactly one EXPIRE, with its ttlSeconds
EachStartEntryExpiredOnce ==
    \A id \in DOMAIN startMap :
        id \in DOMAIN issued /\ issued[id] = <<startMap[id]>>

\* C3: after an accepted UpdateTTL(id, t2), whatever was queued for id before,
\* the entry of id holds the seconds of t2 (one entry per id, last writer wins),
\* and the next invocation of the timer callback issues exactly one EXPIRE for
\* id, carrying that value.
C3_DedupLastWriterWins ==
    /\ (last.op = "UpdateTTL" /\ AtLeast(last.ttl, DefaultStorageRedisLoopInterval))
            => /\ last.id \in DOMAIN updatingIdMap
               /\ updatingIdMap[last.id] = last.ttl.sec
    /\ QuietInvocationEnded => EachStartEntryExpiredOnce

\* C4: when EXPIRE failed for some of the entries queued at the start of an
\* invocation, the invocation has still drained every one of them, has issued
\* one EXPIRE for each, and has put none of them back.
C4_BatchResilience ==
    (QuietInvocationEnded /\ failed)
        => \A id \in DOMAIN startMap :
              /\ id \notin DOMAIN updatingIdMap
              /\ id \in DOMAIN issued
              /\ Len(issued[id]) = 1

\* C5: an invocation during which no touch arrives ends with updatingIdMap
\* empty, having issued exactly one EXPIRE(prefix+id, ttlSeconds) for each entry
\* queued at its start, whatever the session ids are.
C5_FlushDrainsUntilEmpty ==
    /\ QuietInvocationEnded
            => /\ DOMAIN updatingIdMap = {}
               /\ DOMAIN issued = DOMAIN startMap
               /\ EachStartEntryExpiredOnce
    /\ last.op = "timer.doUpdateTTL"
            => /\ last.calls[1].cmd = "EXPIRE"
               /\ last.calls[1].key = KeyOf(last.id)

\* C6: no accepted touch is lost: while the timer callback is not running, the
\* latest accepted touch of every id either has had an EXPIRE carrying its ttl
\* or is still queued with that ttl; every queued value is one a touch supplied.
C6_NoAcceptedTouchLost ==
    /\ timer.pc = "idle"
            => \A id \in DOMAIN owed :
                  id \in DOMAIN updatingIdMap /\ updatingIdMap[id] = owed[id]
    /\ \A id \in DOMAIN updatingIdMap :
          \E ttl \in TouchTTLs :
              AtLeast(ttl, DefaultStorageRedisLoopInterval) /\ updatingIdMap[id] = ttl.sec

\* a SetSession of a map with a ttl of at least one second, then at once a
\* GetSession of the same id with no map passed in, both reaching the store
SaveThenLoad ==
    /\ last.op = "SetSession"
    /\ AtLeast(last.ttl, Seconds(1))
    /\ LastCallOk
    /\ last'.op = "GetSession"
    /\ last'.id = last.id
    /\ last'.data = <<>>
    /\ last'.calls[1].ok

\* C7: whatever was stored for id before, SetSession(id, M, T) with T >= 1s
\* followed at once by GetSession(id, T, nil) returns, with no error from either,
\* a new map equal to M (the empty map included).
C7_RoundTrip ==
    [][ SaveThenLoad
            => /\ last.err = "nil"
               /\ last'.err = "nil"
               /\ last'.ret = last.data
               /\ ~last'.same ]_vars

\* the empty map was saved over a record and read back at once
C7_Witness ==
    /\ last.op = "GetSession"
    /\ last.after = "SetSession"
    /\ last.data = <<>>
    /\ last.err = "nil"
    /\ last.ret = <<EmptyMap>>

\* C8: GetSession of an id whose key holds no record, the backend answering,
\* returns nil with a nil error, whether or not a map was passed in, and leaves
\* the map passed in as it was.
C8_AbsentOnMiss ==
    (last.op = "GetSession" /\ LastCallOk /\ KeyOf(last.id) \notin DOMAIN store)
        => /\ last.ret = <<>>
           /\ last.err = "nil"
           /\ ~last.same
           /\ last.dataAfter = last.data

\* a map was passed to a GetSession of an id that had just been removed
C8_Witness ==
    /\ last.op = "GetSession"
    /\ last.after = "RemoveAll"
    /\ LastCallOk
    /\ KeyOf(last.id) \notin DOMAIN store
    /\ last.data # <<>>

\* the payloads that are JSON for a map: those json.Marshal writes, and null
MapPayloads == {Marshal(<<m>>).content : m \in SessionMaps} \cup {<<"null">>}

\* GetSession fails exactly when GET fails or the payload found is not JSON
\* for a map, and then returns no map and leaves the caller's map alone
LoadFailsExactlyOnBackendOrDecodeError ==
    LET content == RedisGet(KeyOf(last.id)) IN
    /\ (last.err # "nil")
          <=> (~LastCallOk \/ (content # <<>> /\ content \notin MapPayloads))
    /\ last.err # "nil"
          => /\ last.ret = <<>>
             /\ ~last.same
             /\ last.dataAfter = last.data

\* C9 as stated: GetSession fails exactly when GET fails or the payload cannot
\* be decoded, leaving the caller's map alone; it returns (nil, nil) only when
\* GET succeeded and found no record.
C9_FailedLoadNeverAbsentAsStated ==
    last.op = "GetSession"
        => /\ LoadFailsExactlyOnBackendOrDecodeError
           /\ (last.ret = <<>> /\ last.err = "nil")
                 => (LastCallOk /\ KeyOf(last.id) \notin DOMAIN store)

\* C9: GetSession fails exactly when GET fails or the payload cannot be decoded,
\* leaving the caller's map alone; it returns (nil, nil) only when GET succeeded
\* and found no record, a record with an empty payload, or the payload null.
C9_FailedLoadNeverAbsent ==
    last.op = "GetSession"
        => /\ LoadFailsExactlyOnBackendOrDecodeError
           /\ (last.ret = <<>> /\ last.err = "nil")
                 => (LastCallOk /\ RedisGet(KeyOf(last.id)) \in {<<>>, <<"null">>})

\* a GetSession with a map passed in found a payload it could not decode
C9_Witness ==
    /\ last.op = "GetSession"
    /\ LastCallOk
    /\ last.err = "json: cannot unmarshal"
    /\ last.data # <<>>

\* C10: RemoveAll, the backend answering, returns nil and leaves no record under
\* the key; on a key with no record it leaves the store as it was; afterwards
\* no step but a SetSession of the id puts a record under the key, and until
\* then GetSession of the id returns nil with a nil error.
C10_IdempotentDelete ==
    [][ /\ (last'.op = "RemoveAll" /\ last'.calls[1].ok)
            => /\ last'.err = "nil"
               /\ KeyOf(last'.id) \notin DOMAIN store'
               /\ DOMAIN store' = DOMAIN store \ {KeyOf(last'.id)}
               /\ \A k \in DOMAIN store' : store'[k] = store[k]
        /\ \A id \in Ids :
              (KeyOf(id) \notin DOMAIN store /\ ~(last'.op = "SetSession" /\ last'.id = id))
                  => KeyOf(id) \notin DOMAIN store'
        /\ (last'.op = "GetSession" /\ last'.calls[1].ok
                /\ KeyOf(last'.id) \notin DOMAIN store')
            => (last'.ret = <<>> /\ last'.err = "nil") ]_vars

\* RemoveAll of an id was called twice in a row and succeeded both times
C10_Witness ==
    /\ last.op = "RemoveAll"
    /\ last.after = "RemoveAll"
    /\ last.err = "nil"

DisabledOps == {"New", "Get", "Data", "GetSize", "Set", "SetMap", "Remove"}

\* C11: New, Get, Data, GetSize, Set, SetMap and Remove return ErrorDisabled for
\* every input, issue no backend call, and leave the store and updatingIdMap
\* as they were.
C11_DisabledOperations ==
    [][ last'.op \in DisabledOps
            => /\ last'.err = ErrorDisabled
               /\ last'.calls = <<>>
               /\ store' = store
               /\ updatingIdMap' = updatingIdMap ]_vars

\* SetMap was called with a map while a record was stored and a touch was queued
C11_Witness ==
    /\ last.op = "SetMap"
    /\ last.err = ErrorDisabled
    /\ last.data # <<>>
    /\ DOMAIN store # {}
    /\ DOMAIN updatingIdMap # {}

\* the backend command of each synchronous operation
SyncCommand == [GetSession |-> "GET", SetSession |-> "SETEX", RemoveAll |-> "DEL"]

StoredMaps == {sm \in SessionMaps : Marshal(<<sm>>).content = RedisGet(KeyOf(last.id))}

\* C13: when GetSession finds the record of a session map, the backend
\* answering: with a map passed in, the returned pointer is the caller's, and
\* that map now holds exactly the stored map (its other keys are gone); with
\* nil passed in, a new map equal to the stored one is returned.
C13_LoadReplacesInPlace ==
    (last.op = "GetSession" /\ LastCallOk)
        => \A sm \in StoredMaps :
              /\ last.err = "nil"
              /\ last.ret = <<sm>>
              /\ last.data # <<>> => (last.same /\ last.dataAfter = <<sm>>)
              /\ last.data = <<>> => (~last.same /\ last.dataAfter = <<>>)

\* a map holding the keys a and b was passed in, the record held the key a only
C13_Witness ==
    /\ last.op = "GetSession"
    /\ LastCallOk
    /\ last.data = <<MapOf2(GoNumber("7"), GoBool("true"))>>
    /\ MapOf1("a", GoString("x")) \in StoredMaps
    /\ last.same
    /\ last.dataAfter = <<MapOf1("a", GoString("x"))>>

\* C14: SetSession sends the whole seconds of its ttl (the ttl rounded down) as
\* the expiry of SETEX, UpdateTTL queues the whole seconds of its ttl, and the
\* timer callback passes the queued value to EXPIRE as it is.
C14_TtlSecondsTruncated ==
    /\ []((last.op = "SetSession" /\ last.calls # <<>>)
            => last.calls[1].secs = last.ttl.sec)
    /\ []((last.op = "UpdateTTL" /\ AtLeast(last.ttl, DefaultStorageRedisLoopInterval))
            => updatingIdMap[last.id] = last.ttl.sec)
    /\ [][ /\ last'.op = "timer.pop"
                => timer'.ttlSeconds = updatingIdMap[timer'.sessionId]
           /\ last'.op = "timer.doUpdateTTL"
                => last'.calls[1].secs = timer.ttlSeconds ]_vars

\* C15: with the timer firing again and again, backend calls returning and
\* finitely many touches during one invocation: every accepted touch of an id
\* is eventually followed by an EXPIRE for the id that carries its ttl or that
\* of a later touch, every invocation of the timer callback ends, and an entry
\* queued when an invocation starts has had its EXPIRE when the invocation ends.
C15_AcceptedTouchEventuallyRenewed ==
    /\ \A id \in Ids : (id \in DOMAIN owed) ~> (id \notin DOMAIN owed)
    /\ (timer.pc # "idle") ~> (timer.pc = "idle")
    /\ [](last.op = "timer.end" => \A id \in DOMAIN startMap : id \in DOMAIN issued)

\* the steps of the renewal path: a touch and the steps of the timer callback
RenewalSteps == {"UpdateTTL", "timer.start", "timer.pop", "timer.end", "timer.doUpdateTTL"}

\* C16: no step of the renewal path creates or deletes a record or changes a
\* stored value; an EXPIRE that reaches the store for a key with no record
\* (never saved, or removed since the touch) returns no error, counts as no
\* failure and leaves the store as it was, and a GetSession of that id right
\* after it returns nil with a nil error.
C16_RenewalChangesExpiryOnly ==
    [][ /\ last'.op \in RenewalSteps
            => /\ DOMAIN store' = DOMAIN store
               /\ \A k \in DOMAIN store : store'[k].val = store[k].val
        /\ (/\ last'.op = "timer.doUpdateTTL"
            /\ last'.calls[1].ok
            /\ last'.calls[1].key \notin DOMAIN store)
            => /\ last'.err = "nil"
               /\ failed' = failed
               /\ store' = store
        /\ (/\ last.op = "timer.doUpdateTTL"
            /\ KeyOf(last.id) \notin DOMAIN store
            /\ last'.op = "GetSession"
            /\ last'.id = last.id
            /\ last'.calls[1].ok)
            => /\ last'.ret = <<>>
               /\ last'.err = "nil" ]_vars

\* the timer callback's EXPIRE reached the store for an id with no record,
\* while another id had one
C16_Witness ==
    /\ last.op = "timer.doUpdateTTL"
    /\ LastCallOk
    /\ KeyOf(last.id) \notin DOMAIN store
    /\ DOMAIN store # {}
    /\ ~failed

C18_ExpiryFromLatestRequest ==
    [][ (/\ last'.op = "timer.doUpdateTTL"
         /\ last'.calls[1].ok
         /\ last'.calls[1].key \in DOMAIN store)
            => /\ last'.calls[1].secs = latest.of[last'.id]
               /\ store[last'.calls[1].key].ttl = latest.of[last'.id]
                    => store'[last'.calls[1].key].ttl >= store[last'.calls[1].key].ttl ]_vars

\* C19: every EXPIRE call of the timer callback is for the id and ttlSeconds of
\* the entry it popped, a value some accepted touch of that id supplied; every
\* entry popped leads to exactly one EXPIRE call; and the EXPIRE calls for an
\* id never outnumber the accepted touches of that id.
C19_NoSpuriousRenewals ==
    /\ [][ /\ last'.op = "timer.doUpdateTTL"
                => /\ Len(last'.calls) = 1
                   /\ last'.calls[1].cmd = "EXPIRE"
                   /\ last'.calls[1].key = KeyOf(timer.sessionId)
                   /\ last'.calls[1].secs = timer.ttlSeconds
                   /\ last'.calls[1].secs \in CreditOf(timer.sessionId).secs
           /\ (last'.op \in {"timer.pop", "timer.end"} /\ updatingIdMap' # updatingIdMap)
                => /\ timer'.pc = "update"
                   /\ timer'.sessionId \in DOMAIN updatingIdMap
                   /\ timer'.ttlSeconds = updatingIdMap[timer'.sessionId] ]_vars
    /\ [](\A id \in DOMAIN credit.of : credit.of[id].n >= 0)

\* the steps that act for the session last.id names
SessionSteps ==
    {"SetSession", "RemoveAll", "UpdateTTL", "timer.pop", "timer.end", "timer.doUpdateTTL"}

\* C20: every backend call of a step for a session id is on the key prefix+id;
\* SetSession, RemoveAll and UpdateTTL of an id, and the timer callback's pop
\* and EXPIRE of an id, leave the record (value and expiry) and the queued
\* entry of every other id as they were.
C20_PerSessionIsolation ==
    [][ /\ \A i \in DOMAIN last'.calls : last'.calls[i].key = KeyOf(last'.id)
        /\ last'.op \in SessionSteps
            => \A other \in Ids \ {last'.id} :
                  /\ (KeyOf(other) \in DOMAIN store') = (KeyOf(other) \in DOMAIN store)
                  /\ KeyOf(other) \in DOMAIN store
                        => store'[KeyOf(other)] = store[KeyOf(other)]
                  /\ (other \in DOMAIN updatingIdMap') = (other \in DOMAIN updatingIdMap)
                  /\ other \in DOMAIN updatingIdMap
                        => updatingIdMap'[other] = updatingIdMap[other] ]_vars

\* a session was removed while another one had a record and a queued touch
C20_Witness ==
    /\ last.op = "RemoveAll"
    /\ last.err = "nil"
    /\ \E other \in Ids \ {last.id} :
          /\ KeyOf(other) \in DOMAIN store
          /\ other \in DOMAIN updatingIdMap

====
